---- MODULE Spec2Model ----
(***************************************************************************)
(* Frequency-swept EVM/ACLR measurement campaign: run_sweep (main.py), the *)
(* power-leveling servo PowerServo.servo_power (power_servo.py) and the    *)
(* analyzer measurements VSA.measure_evm, VSA.measure_K575_evm (vsa.py).   *)
(*                                                                         *)
(* Units.  Frequencies are integers counting steps of 1/SubPerMHz MHz, so  *)
(* that a raw frequency in Hz and its canonical key round(f / 1e9, 3)     *)
(* (a whole number of MHz) are different things.  Powers, offsets and the  *)
(* tolerance are integers counting one common power step.  Arithmetic is   *)
(* exact: floating-point rounding error of the Python floats is not        *)
(* modelled.                                                               *)
(*                                                                         *)
(* Specifications.                                                         *)
(*   Spec       one run of run_sweep, from the derivation of the grid      *)
(*              (main.py:52) to the end of the finally block               *)
(*              (main.py:256).  The cold configure of the signal source    *)
(*              (main.py:105) raises TypeError on every run that gets      *)
(*              there, so no run executes main.py:106-174 and the sweep    *)
(*              loop has no action here.                                   *)
(*   SpecServo  one call of PowerServo.servo_power against a power meter   *)
(*              that may answer any reading or fail.                       *)
(*   SpecVSA    one VSA object after its constructor: measure_evm and      *)
(*              measure_K575_evm called in any order until one raises,     *)
(*              against an analyzer that may answer any text or fail.      *)
(***************************************************************************)
EXTENDS Integers, Sequences, FiniteSets, TLC

VARIABLES
    \* ---- run_sweep (main.py) ----
    pc,                  \* position in run_sweep
    sweep_params,        \* [start, stop, step] of the "range" object, in frequency steps
    cal_schema,          \* what the calibration workbook looks like: "ok", "nocolumn", "nonnumeric"
    cal_df,              \* the calibration table: a sequence of rows
    freqs,               \* the grid, main.py:60
    results,             \* main.py:79
    matched_frequencies, \* main.py:80
    handles,             \* the instrument handles constructed so far
    ops,                 \* every instrument call made so far, in order
    closed,              \* per instrument: "no", "closed", "raised" (close attempted and failed)
    exc,                 \* the exception in flight: "none", "TypeError", "Transport"
    faulted,             \* TRUE once an instrument has failed a call
    sink,                \* the workbook: whether it was written, and the records written
    offsets,             \* the four offsets run_sweep last read from the table (main.py:98-101)
    \* ---- PowerServo.servo_power (power_servo.py) ----
    spc,                 \* position in servo_power: "idle", "loop", "returned", "raised"
    target_output,       \* argument of servo_power
    tolerance,           \* self.tolerance
    max_iterations,      \* self.max_iterations
    servo_iterations,    \* power_servo.py:37
    expected_gain,       \* argument of servo_power
    i,                   \* the loop index: how many iterations of the for loop have begun
    initial_pwr,         \* the running setpoint, power_servo.py:35 and :49
    converged,           \* TRUE when the loop left through break (power_servo.py:47)
    readings,            \* the output-power readings pm.measure() returned, in order
    pushes,              \* the levels passed to vsg.set_power, in order
    sfault,              \* TRUE once the power meter or the source failed a call in servo_power
    vsg_level,           \* the power level the source is set to
    entry_level,         \* the power level the source was set to when servo_power was called
    \* ---- VSA.measure_evm, VSA.measure_K575_evm (vsa.py) ----
    vpc,                 \* the VSA object: "idle", "ready" (every call so far returned), "raised"
    vsa_state,           \* the analyzer's settings
    ventry,              \* the analyzer's settings when the last call began
    vcall,               \* the last call: method, arguments, the analyzer's answers, failing command
    vlog,                \* the active measurement after each command the last call sent
    vret,                \* what the last call returned
    vrecord,             \* the entries of the result dict the caller makes of vret
    vcalls,              \* the number of calls made
    vconstructed         \* the analyzer's settings when the constructor returned

sweepVars == <<pc, sweep_params, cal_schema, cal_df, freqs, results, matched_frequencies,
               handles, ops, closed, exc, faulted, sink, offsets>>
servoVars == <<spc, target_output, tolerance, max_iterations, servo_iterations,
               expected_gain, i, initial_pwr, converged, readings, pushes, sfault,
               vsg_level, entry_level>>
vsaVars == <<vpc, vsa_state, ventry, vcall, vlog, vret, vrecord, vcalls, vconstructed>>
vars == <<sweepVars, offsets, servoVars, vsaVars>>

----------------------------------------------------------------------------
(* Bounds of the model. *)

SubPerMHz == 5
MaxSpanMHz == 2
MaxCalRows == 3
MaxIterBound == 4
MaxTol == 2
MaxDev == 2
MaxCalls == 2
MaxAvgs == 2

----------------------------------------------------------------------------
(* Pure helpers. *)

Abs(x) == IF x < 0 THEN -x ELSE x

\* ceil(a / b) for b > 0.
CeilDiv(a, b) == -((-a) \div b)

RoundKeyHalfStep(f) == (2 * f + SubPerMHz) \div SubPerMHz

\* round(f / 1e9, 3): the canonical key, a whole number of MHz (nearest).  With
\* an odd SubPerMHz no frequency lies halfway between two keys.
RoundKey(f) == (2 * f + SubPerMHz) \div (2 * SubPerMHz)

\* numpy.arange(lo, hi, st): ceil((hi - lo) / st) values lo + n * st.
ArangeLen(lo, hi, st) == IF hi > lo THEN CeilDiv(hi - lo, st) ELSE 0
Arange(lo, hi, st) == [n \in 1..ArangeLen(lo, hi, st) |-> lo + (n - 1) * st]

\* main.py:60
Grid(start, stop, step) == Arange(start, stop + step, step)

\* main.py:61, :93, :110
Key(freq) == RoundKey(freq)
\* A key taken as a frequency again: key * 1e9, in frequency steps.
KeyAsFreq(key) == key * SubPerMHz

RowMatchesNearest(row, key) == Abs(RoundKey(row.freq) - key) <= 1

\* cal_df[cal_df["Center Frequency (GHz)"].round(3) == key]: the rows, in table order.
RowMatches(row, key) == RoundKey(row.freq) = key
Match(df, key) == SelectSeq(df, LAMBDA row : RowMatches(row, key))

IlocLast(match) == match[Len(match)]
\* match[...].iloc[0]: the first of the matching rows.
Iloc0(match) == match[1]
\* Before any lookup, and when no row matches (match.empty).
NotFound == [found |-> FALSE, vsg_offset |-> 0, vsa_offset |-> 0,
             input_offset |-> 0, output_offset |-> 0]
\* main.py:94-101 and main.py:115-124: the four offsets of the first matching row.
Lookup(df, key) ==
    IF Match(df, key) = <<>>
    THEN NotFound
    ELSE [found |-> TRUE,
          vsg_offset |-> Iloc0(Match(df, key)).vsg_offset,
          vsa_offset |-> Iloc0(Match(df, key)).vsa_offset,
          input_offset |-> Iloc0(Match(df, key)).input_offset,
          output_offset |-> Iloc0(Match(df, key)).output_offset]

----------------------------------------------------------------------------
(* run_sweep, main.py:52-256. *)

Devices == {"vsg", "vsa", "pm"}

\* The frequencies a run may be given: 3.5 GHz, on and off a whole MHz.
StartChoices == {3500 * SubPerMHz, 3500 * SubPerMHz + 2}
StepChoices == 1..SubPerMHz
SpanChoices == 0..(MaxSpanMHz * SubPerMHz)

\* The rows a calibration table may hold: a frequency and the four offsets.  Two
\* rows of different frequency differ in every offset, also when they round to
\* the same key.
CalFreqChoices == {3500 * SubPerMHz, 3500 * SubPerMHz + 1, 3501 * SubPerMHz, 3502 * SubPerMHz}
CalRow(f) == LET o == f - 3500 * SubPerMHz IN
    [freq |-> f, vsg_offset |-> 100 + o, vsa_offset |-> 200 + o,
     input_offset |-> 300 + o, output_offset |-> 400 + o]
CalRowChoices == {CalRow(f) : f \in CalFreqChoices}
SeqsUpTo(S, n) == UNION {[1..k -> S] : k \in 0..n}

\* main.py:92
InitialFreq == IF Len(freqs) > 0 THEN freqs[1] ELSE sweep_params.start

\* What a call leaves in the log of instrument calls.
Op(dev, name, args) == [dev |-> dev, op |-> name, args |-> args]

\* main.py:87
SweepMaxIterations == 10

\* vsg.py:20: the parameters VSG.configure binds besides self.
VSGConfigureParams == <<"freq", "initial_power", "vsg_offset">>
\* main.py:105: the arguments the cold configure passes.
ColdConfigureArgs == <<"initial_freq", "initial_power">>
\* A Python call of a function without defaults binds only when every parameter
\* gets an argument; otherwise it raises TypeError before the body runs.
CallBinds(params, args) == Len(args) = Len(params)

----------------------------------------------------------------------------
(* The analyzer and the texts it answers (vsa.py). *)

\* main.py:58: the averaging counts of the extended measurement, in list order.
K575Averages == <<5, 10, 15, 20, 50>>
AvgChoices == {K575Averages[n] : n \in 1..MaxAvgs}

\* The texts the analyzer may answer a fetch with, and the value Python's
\* float() gives for the numeric ones, in tenths.  "ERR" is not numeric.
FloatOf == ("-10.0" :> -100) @@ ("-45.2" :> -452) @@ ("-44.8" :> -448)
Texts == DOMAIN FloatOf \cup {"ERR"}
IsNumeric(text) == text \in DOMAIN FloatOf

\* A Python float: a number, or the not-a-number value.  Absent marks a field
\* the called method does not return.
Num(v) == [kind |-> "num", val |-> v]
NaN == [kind |-> "nan", val |-> 0]
Absent == [kind |-> "absent", val |-> 0]

QueryFloatZero(text) == IF IsNumeric(text) THEN Num(FloatOf[text]) ELSE Num(0)
\* vsa.py:69-74: float(response), NaN on ValueError.
QueryFloat(text) == IF IsNumeric(text) THEN Num(FloatOf[text]) ELSE NaN

\* vsa.py:103 / vsa.py:139: the answer to the ACP query after split(','): three
\* numeric texts, the same with one of them replaced by "ERR", or one text too
\* few.
AclrNumeric == <<"-10.0", "-45.2", "-44.8">>
AclrLists ==
    {AclrNumeric, SubSeq(AclrNumeric, 1, 2)}
        \cup {[AclrNumeric EXCEPT ![k] = "ERR"] : k \in 1..3}
\* vsa.py:104-106 / vsa.py:140-142: float(aclr_list.split(',')[k]) for k = 0, 1,
\* 2 in this order, unprotected: the first k that is non-numeric raises
\* ValueError, a missing k raises IndexError.
ParseAclrSwapped(aclr) ==
    [chan_pow |-> Num(FloatOf[aclr[1]]),
     adj_chan_lower |-> Num(FloatOf[aclr[3]]),
     adj_chan_upper |-> Num(FloatOf[aclr[2]])]
\* vsa.py:104-106 / vsa.py:140-142: element 0 is the channel power, element 1
\* the lower and element 2 the upper adjacent-channel leakage.
ParseAclr(aclr) ==
    [chan_pow |-> Num(FloatOf[aclr[1]]),
     adj_chan_lower |-> Num(FloatOf[aclr[2]]),
     adj_chan_upper |-> Num(FloatOf[aclr[3]])]
AclrParseError(aclr) ==
    IF \E k \in 1..3 : /\ k <= Len(aclr) /\ ~IsNumeric(aclr[k])
                       /\ \A m \in 1..(k - 1) : IsNumeric(aclr[m])
    THEN "ValueError"
    ELSE IF Len(aclr) < 3 THEN "IndexError" ELSE "none"

\* The settings of the analyzer the two measurements write.
FreqStrChoices == {3500, 3501}
VsaOffsetChoices == {0}
AnalyzerStates ==
    [meas : {"EVM", "ACLR"}, ncan : BOOLEAN, ncan_count : AvgChoices,
     ncor : BOOLEAN, cent : FreqStrChoices, rlev_offs : VsaOffsetChoices]
\* vsa.py:14-36: the constructor resets the analyzer and recalls a stored setup.
\* The setup is one for the EVM measurement without noise-cancel averaging; its
\* other settings are whatever was stored.
ConstructedStates ==
    {st \in AnalyzerStates : st.meas = "EVM" /\ st.ncan = FALSE
                             /\ st.cent = 3500 /\ st.rlev_offs = 0}

\* The responses no command consumed.
NoResp == [pow |-> "ERR", evm |-> "ERR", aclr |-> <<"ERR", "ERR">>]
NoCall == [name |-> "none", freq_str |-> 0, vsa_offset |-> 0, avg |-> 0,
           fail |-> 0, resp |-> NoResp]
NoRet == [status |-> "none", vsa_power |-> Absent, evm |-> Absent,
          chan_pow |-> Absent, adj_chan_lower |-> Absent, adj_chan_upper |-> Absent]
\* main.py:143-159: the entries of the result dict that hold what measure_evm
\* returned (the elapsed times are left out).
StandardResult(ret) ==
    ("VSA Output Power (dBm)" :> ret.vsa_power)
        @@ ("EVM (dB)" :> ret.evm)
        @@ ("Channel Power (dBm)" :> ret.chan_pow)
        @@ ("Lower Adjacent ACLR (dB)" :> ret.adj_chan_lower)
        @@ ("Upper Adjacent ACLR (dB)" :> ret.adj_chan_upper)
\* main.py:164-168: the entries added for one count of k575_averages.
K575Result(avg, ret) ==
    (("K575 EVM " \o ToString(avg) \o " avg (dB)") :> ret.evm)
        @@ (("K575 Channel Power " \o ToString(avg) \o " avg (dBm)") :> ret.chan_pow)
        @@ (("K575 Lower Adjacent ACLR " \o ToString(avg) \o " avg (dB)") :> ret.adj_chan_lower)
        @@ (("K575 Upper Adjacent ACLR " \o ToString(avg) \o " avg (dB)") :> ret.adj_chan_upper)
NoRecord == ("none" :> Absent)
IdleAnalyzer == [meas |-> "EVM", ncan |-> FALSE, ncan_count |-> K575Averages[1],
                 ncor |-> FALSE, cent |-> 3500, rlev_offs |-> 0]

VsaIdle ==
    /\ vpc = "idle" /\ vsa_state = IdleAnalyzer /\ ventry = IdleAnalyzer
    /\ vcall = NoCall /\ vlog = <<>> /\ vret = NoRet /\ vrecord = NoRecord
    /\ vcalls = 0 /\ vconstructed = IdleAnalyzer

SweepIdle ==
    /\ spc = "idle" /\ target_output = 0 /\ tolerance = 0 /\ max_iterations = 0
    /\ servo_iterations = 0 /\ expected_gain = 0 /\ i = 0 /\ initial_pwr = 0
    /\ converged = FALSE /\ readings = <<>> /\ pushes = <<>> /\ sfault = FALSE
    /\ vsg_level = 0 /\ entry_level = 0

Init ==
    /\ pc = "grid"
    /\ \E st \in StartChoices, sp \in SpanChoices, step \in StepChoices :
          sweep_params = [start |-> st, stop |-> st + sp, step |-> step]
    /\ cal_schema \in {"ok", "nocolumn", "nonnumeric"}
    /\ cal_df \in IF cal_schema = "ok" THEN SeqsUpTo(CalRowChoices, MaxCalRows) ELSE {<<>>}
    /\ freqs = <<>>
    /\ results = <<>>
    /\ matched_frequencies = {}
    /\ handles = {}
    /\ ops = <<>>
    /\ closed = [d \in Devices |-> "no"]
    /\ exc = "none"
    /\ faulted = FALSE
    /\ sink = [written |-> FALSE, records |-> <<>>]
    /\ offsets = NotFound
    /\ SweepIdle
    /\ VsaIdle

\* main.py:52-61
BuildGrid ==
    /\ pc = "grid"
    /\ freqs' = Grid(sweep_params.start, sweep_params.stop, sweep_params.step)
    /\ pc' = "load_cal"
    /\ UNCHANGED <<sweep_params, cal_schema, cal_df, results, matched_frequencies,
                   handles, ops, closed, exc, faulted, sink, offsets, servoVars, vsaVars>>

SchemaAcceptedLenient(schema) == schema # "nocolumn"
\* main.py:67-77: the frequency column is there (main.py:67) and astype(float)
\* does not raise ValueError on it (main.py:72-77).
SchemaAccepted(schema) == schema = "ok"

\* main.py:66-80: a table without the frequency column, or with a non-numeric
\* value in it, ends run_sweep before any handle exists.
LoadCalibration ==
    /\ pc = "load_cal"
    /\ pc' = IF SchemaAccepted(cal_schema) THEN "new_vsg" ELSE "returned"
    /\ results' = <<>>
    /\ matched_frequencies' = {}
    /\ UNCHANGED <<sweep_params, cal_schema, cal_df, freqs,
                   handles, ops, closed, exc, faulted, sink, offsets, servoVars, vsaVars>>

\* main.py:84-87: a constructor either opens its instrument and sends its setup
\* commands, or raises; these lines are outside the try statement.
Construct(dev, at, next) ==
    /\ pc = at
    /\ \/ /\ handles' = handles \cup {dev}
          /\ ops' = Append(ops, Op(dev, "init", <<>>))
          /\ pc' = next
          /\ UNCHANGED <<exc, faulted>>
       \/ /\ exc' = "Transport"
          /\ faulted' = TRUE
          /\ pc' = "raised"
          /\ UNCHANGED <<handles, ops>>
    /\ UNCHANGED <<sweep_params, cal_schema, cal_df, freqs, results, matched_frequencies,
                   closed, sink, offsets, servoVars, vsaVars>>

ConstructVSG == Construct("vsg", "new_vsg", "new_vsa")
ConstructVSA == Construct("vsa", "new_vsa", "new_pm")
ConstructPM == Construct("pm", "new_pm", "cold_match")

\* main.py:92-101: no calibration row for the first frequency returns from inside
\* the try statement, so the finally block runs next.
ColdMatch ==
    /\ pc = "cold_match"
    /\ pc' = IF Match(cal_df, Key(InitialFreq)) = <<>> THEN "finally_vsg" ELSE "cold_pm"
    /\ offsets' = Lookup(cal_df, Key(InitialFreq))
    /\ UNCHANGED <<sweep_params, cal_schema, cal_df, freqs, results, matched_frequencies,
                   handles, ops, closed, exc, faulted, sink, servoVars, vsaVars>>

\* main.py:103, power_meter.py:25-41
ColdConfigurePM ==
    /\ pc = "cold_pm"
    /\ LET row == offsets IN
       \/ /\ ops' = Append(ops, Op("pm", "configure",
                              <<InitialFreq, row.input_offset, row.output_offset>>))
          /\ pc' = "cold_vsg"
          /\ UNCHANGED <<exc, faulted>>
       \/ /\ exc' = "Transport"
          /\ faulted' = TRUE
          /\ pc' = "finally_vsg"
          /\ UNCHANGED ops
    /\ UNCHANGED <<sweep_params, cal_schema, cal_df, freqs, results, matched_frequencies,
                   handles, closed, sink, offsets, servoVars, vsaVars>>

\* main.py:104-105 against vsg.py:20: the call passes two arguments to the three
\* parameters of VSG.configure, so it raises TypeError and no command is sent.
ColdConfigureVSG ==
    /\ pc = "cold_vsg"
    /\ IF CallBinds(VSGConfigureParams, ColdConfigureArgs)
       THEN /\ ops' = Append(ops, Op("vsg", "configure", <<InitialFreq>>))
            /\ pc' = "cold_vsa"
            /\ exc' = exc
       ELSE /\ exc' = "TypeError"
            /\ pc' = "finally_vsg"
            /\ ops' = ops
    /\ UNCHANGED <<sweep_params, cal_schema, cal_df, freqs, results, matched_frequencies,
                   handles, closed, faulted, sink, offsets, servoVars, vsaVars>>

\* main.py:177, vsg.py:50-51: an exception out of vsg.close() leaves the finally
\* block at once.
FinallyCloseVSG ==
    /\ pc = "finally_vsg"
    /\ \/ /\ closed' = [closed EXCEPT !["vsg"] = "closed"]
          /\ pc' = "finally_pm"
          /\ UNCHANGED <<exc, faulted>>
       \/ /\ closed' = [closed EXCEPT !["vsg"] = "raised"]
          /\ exc' = "Transport"
          /\ faulted' = TRUE
          /\ pc' = "raised"
    /\ UNCHANGED <<sweep_params, cal_schema, cal_df, freqs, results, matched_frequencies,
                   handles, ops, sink, offsets, servoVars, vsaVars>>

\* main.py:179, power_meter.py:80-86: PowerMeter.close logs and re-raises.
FinallyClosePM ==
    /\ pc = "finally_pm"
    /\ \/ /\ closed' = [closed EXCEPT !["pm"] = "closed"]
          /\ pc' = "finally_write"
          /\ UNCHANGED <<exc, faulted>>
       \/ /\ closed' = [closed EXCEPT !["pm"] = "raised"]
          /\ exc' = "Transport"
          /\ faulted' = TRUE
          /\ pc' = "raised"
    /\ UNCHANGED <<sweep_params, cal_schema, cal_df, freqs, results, matched_frequencies,
                   handles, ops, sink, offsets, servoVars, vsaVars>>

\* main.py:180-256: the records go to the workbook; then the exception in flight,
\* if any, leaves run_sweep.
FinallyWrite ==
    /\ pc = "finally_write"
    /\ sink' = [written |-> TRUE, records |-> results]
    /\ pc' = IF exc = "none" THEN "returned" ELSE "raised"
    /\ UNCHANGED <<sweep_params, cal_schema, cal_df, freqs, results, matched_frequencies,
                   handles, ops, closed, exc, faulted, offsets, servoVars, vsaVars>>

Next ==
    \/ BuildGrid
    \/ LoadCalibration
    \/ ConstructVSG
    \/ ConstructVSA
    \/ ConstructPM
    \/ ColdMatch
    \/ ColdConfigurePM
    \/ ColdConfigureVSG
    \/ FinallyCloseVSG
    \/ FinallyClosePM
    \/ FinallyWrite

Spec == Init /\ [][Next]_vars

Terminated == pc \in {"returned", "raised"}

----------------------------------------------------------------------------
(* PowerServo.servo_power, power_servo.py:23-56. *)

TargetChoices == {0, 10}
GainChoices == {0, 20}
\* What the power meter may answer for the output power.
Readings == {target_output + d : d \in (-MaxDev)..MaxDev}

ConvergedNever(current_output, target, tol) == FALSE

ConvergedNonStrict(current_output, target, tol) == Abs(current_output - target) <= tol

\* power_servo.py:43
Converged(current_output, target, tol) == Abs(current_output - target) < tol

IterationCountZeroBased(index) == index

\* power_servo.py:42
IterationCount(index) == index + 1

AdjustmentReversed(target, current_output) == current_output - target

AdjustmentHalved(target, current_output) == (target - current_output) \div 2

\* power_servo.py:48
Adjustment(target, current_output) == target - current_output

RangeOneShort(index, n) == index + 1 >= n

\* power_servo.py:40: range(self.max_iterations) has no further index.
RangeExhausted(index, n) == index >= n

ServoIdleSweep ==
    /\ pc = "servo" /\ sweep_params = [start |-> 0, stop |-> 0, step |-> 1]
    /\ cal_schema = "ok" /\ cal_df = <<>> /\ freqs = <<>> /\ results = <<>>
    /\ matched_frequencies = {} /\ handles = Devices /\ ops = <<>>
    /\ closed = [d \in Devices |-> "no"] /\ exc = "none" /\ faulted = FALSE
    /\ sink = [written |-> FALSE, records |-> <<>>] /\ offsets = NotFound

\* The level the caller left on the source.  run_sweep passes target_output -
\* expected_gain to the cold configure (main.py:104-105) and sends the source
\* nothing but the frequency at each point (main.py:129), so a call of
\* servo_power finds that level or the level the call before it pushed last
\* (here: the one pushed after a reading MaxDev above the target).
EntryLevels(target, gain) == {target - gain + Adjustment(0, d) : d \in {0, MaxDev}}

\* The call: any target, expected gain, tolerance and iteration limit.
InitServo ==
    /\ spc = "call"
    /\ target_output \in TargetChoices
    /\ expected_gain \in GainChoices
    /\ tolerance \in 0..MaxTol
    /\ max_iterations \in 1..MaxIterBound
    /\ servo_iterations = 0
    /\ i = 0
    /\ initial_pwr = 0
    /\ converged = FALSE
    /\ readings = <<>>
    /\ pushes = <<>>
    /\ sfault = FALSE
    /\ vsg_level \in EntryLevels(target_output, expected_gain)
    /\ entry_level = vsg_level
    /\ ServoIdleSweep
    /\ VsaIdle

\* power_servo.py:35-38
ServoEnter ==
    /\ spc = "call"
    /\ initial_pwr' = target_output - expected_gain
    /\ servo_iterations' = 0
    /\ i' = 0
    /\ spc' = "loop"
    /\ UNCHANGED <<target_output, tolerance, max_iterations, expected_gain, converged,
                   readings, pushes, sfault, vsg_level, entry_level,
                   sweepVars, vsaVars>>

ServoMeasureRetries ==
    /\ spc = "loop"
    /\ ~RangeExhausted(i, max_iterations)
    /\ ~sfault
    /\ sfault' = TRUE
    /\ UNCHANGED <<spc, target_output, tolerance, max_iterations, expected_gain,
                   servo_iterations, i, initial_pwr, converged, readings, pushes,
                   vsg_level, entry_level,
                   sweepVars, vsaVars>>

\* power_servo.py:41, power_meter.py:43-66: pm.measure() raises; nothing catches it.
ServoMeasureFails ==
    /\ spc = "loop"
    /\ ~RangeExhausted(i, max_iterations)
    /\ sfault' = TRUE
    /\ spc' = "raised"
    /\ UNCHANGED <<target_output, tolerance, max_iterations, expected_gain, servo_iterations,
                   i, initial_pwr, converged, readings, pushes, vsg_level, entry_level,
                   sweepVars, vsaVars>>

\* power_servo.py:41-47: a reading within tolerance leaves the loop through break.
ServoConverge ==
    /\ spc = "loop"
    /\ ~RangeExhausted(i, max_iterations)
    /\ \E current_output \in Readings :
          /\ Converged(current_output, target_output, tolerance)
          /\ readings' = Append(readings, current_output)
    /\ servo_iterations' = IterationCount(i)
    /\ converged' = TRUE
    /\ spc' = "returned"
    /\ UNCHANGED <<target_output, tolerance, max_iterations, expected_gain,
                   i, initial_pwr, pushes, sfault, vsg_level, entry_level,
                   sweepVars, vsaVars>>

\* power_servo.py:41-50: any other reading moves the setpoint and pushes it to
\* the source; the loop goes on with the next index.
ServoAdjust ==
    /\ spc = "loop"
    /\ ~RangeExhausted(i, max_iterations)
    /\ \E current_output \in Readings :
          /\ ~Converged(current_output, target_output, tolerance)
          /\ readings' = Append(readings, current_output)
          /\ initial_pwr' = initial_pwr + Adjustment(target_output, current_output)
    /\ servo_iterations' = IterationCount(i)
    /\ pushes' = Append(pushes, initial_pwr')
    /\ vsg_level' = initial_pwr'
    /\ i' = i + 1
    /\ UNCHANGED <<spc, target_output, tolerance, max_iterations, expected_gain,
                   converged, sfault, entry_level,
                   sweepVars, vsaVars>>

\* power_servo.py:50, vsg.py:46-47: vsg.set_power raises; nothing catches it.
ServoSetPowerFails ==
    /\ spc = "loop"
    /\ ~RangeExhausted(i, max_iterations)
    /\ \E current_output \in Readings :
          /\ ~Converged(current_output, target_output, tolerance)
          /\ readings' = Append(readings, current_output)
          /\ initial_pwr' = initial_pwr + Adjustment(target_output, current_output)
    /\ servo_iterations' = IterationCount(i)
    /\ sfault' = TRUE
    /\ spc' = "raised"
    /\ UNCHANGED <<target_output, tolerance, max_iterations, expected_gain,
                   i, converged, pushes, vsg_level, entry_level,
                   sweepVars, vsaVars>>

\* power_servo.py:51-56: the else clause of the for loop, then the return.
ServoExhausted ==
    /\ spc = "loop"
    /\ RangeExhausted(i, max_iterations)
    /\ spc' = "returned"
    /\ UNCHANGED <<target_output, tolerance, max_iterations, expected_gain, servo_iterations,
                   i, initial_pwr, converged, readings, pushes, sfault, vsg_level, entry_level,
                   sweepVars, vsaVars>>

NextServo ==
    \/ ServoEnter
    \/ ServoMeasureFails
    \/ ServoConverge
    \/ ServoAdjust
    \/ ServoSetPowerFails
    \/ ServoExhausted

SpecServo == InitServo /\ [][NextServo]_vars

ServoEnded == spc \in {"returned", "raised"}

----------------------------------------------------------------------------
(* VSA.measure_evm and VSA.measure_K575_evm (vsa.py). *)

Cmd(text, arg) == [text |-> text, arg |-> arg]
AcpQuery == "CALC:MARK:FUNC:POW:RES? ACP"

MeasureEvmCommandsFetchFirst(freq_str, vsa_offset) ==
    <<Cmd(":SENS:FREQ:CENT", freq_str),
      Cmd(":DISP:WIND:TRAC:Y:SCAL:RLEV:OFFS", vsa_offset),
      Cmd("CONF:SETT:NR5G", 0),
      Cmd(":SENS:ADJ:LEV", 0),
      Cmd(":SENS:ADJ:EVM", 0),
      Cmd(":DISP:WIND3:SUBW1:TRAC:Y:SCAL:AUTO ALL", 0),
      Cmd("FETC:CC1:ISRC:FRAM:SUMM:POW:AVERage?", 0),
      Cmd("INIT:IMM", 0),
      Cmd("FETC:CC1:ISRC:FRAM:SUMM:EVM:ALL:AVERage?", 0),
      Cmd("CONF:NR5G:MEAS ACLR", 0),
      Cmd("INIT:IMM", 0),
      Cmd(AcpQuery, 0),
      Cmd("CONF:NR5G:MEAS EVM", 0)>>
MeasureEvmCommandsNoSwitchBack(freq_str, vsa_offset) ==
    <<Cmd(":SENS:FREQ:CENT", freq_str),
      Cmd(":DISP:WIND:TRAC:Y:SCAL:RLEV:OFFS", vsa_offset),
      Cmd("CONF:SETT:NR5G", 0),
      Cmd(":SENS:ADJ:LEV", 0),
      Cmd(":SENS:ADJ:EVM", 0),
      Cmd(":DISP:WIND3:SUBW1:TRAC:Y:SCAL:AUTO ALL", 0),
      Cmd("INIT:IMM", 0),
      Cmd("FETC:CC1:ISRC:FRAM:SUMM:POW:AVERage?", 0),
      Cmd("FETC:CC1:ISRC:FRAM:SUMM:EVM:ALL:AVERage?", 0),
      Cmd("CONF:NR5G:MEAS ACLR", 0),
      Cmd("INIT:IMM", 0),
      Cmd(AcpQuery, 0)>>
\* vsa.py:79-108: the commands measure_evm sends, in order.
MeasureEvmCommands(freq_str, vsa_offset) ==
    <<Cmd(":SENS:FREQ:CENT", freq_str),                      \* vsa.py:79
      Cmd(":DISP:WIND:TRAC:Y:SCAL:RLEV:OFFS", vsa_offset),   \* vsa.py:80
      Cmd("CONF:SETT:NR5G", 0),                              \* vsa.py:81
      Cmd(":SENS:ADJ:LEV", 0),                               \* vsa.py:82
      Cmd(":SENS:ADJ:EVM", 0),                               \* vsa.py:83
      Cmd(":DISP:WIND3:SUBW1:TRAC:Y:SCAL:AUTO ALL", 0),      \* vsa.py:84
      Cmd("INIT:IMM", 0),                                    \* vsa.py:95
      Cmd("FETC:CC1:ISRC:FRAM:SUMM:POW:AVERage?", 0),        \* vsa.py:96
      Cmd("FETC:CC1:ISRC:FRAM:SUMM:EVM:ALL:AVERage?", 0),    \* vsa.py:97
      Cmd("CONF:NR5G:MEAS ACLR", 0),                         \* vsa.py:101
      Cmd("INIT:IMM", 0),                                    \* vsa.py:102
      Cmd(AcpQuery, 0),                                      \* vsa.py:103
      Cmd("CONF:NR5G:MEAS EVM", 0)>>                         \* vsa.py:108

MeasureK575CommandsLateCount(avg) ==
    <<Cmd("SENS:ADJ:NCAN:AVER:STAT ON", 0),
      Cmd("INIT:IMM", 0),
      Cmd("SENS:ADJ:NCAN:AVER:COUN", avg),
      Cmd("FETC:CC1:ISRC:FRAM:SUMM:EVM:ALL:AVERage?", 0),
      Cmd("CONF:NR5G:MEAS ACLR", 0),
      Cmd("SENS:POW:NCOR ON", 0),
      Cmd("INIT:IMM", 0),
      Cmd(AcpQuery, 0),
      Cmd("CONF:NR5G:MEAS EVM", 0),
      Cmd("SENS:ADJ:NCAN:AVER:STAT OFF", 0)>>
\* vsa.py:130-145: the commands measure_K575_evm sends, in order.
MeasureK575Commands(avg) ==
    <<Cmd("SENS:ADJ:NCAN:AVER:STAT ON", 0),                  \* vsa.py:130
      Cmd("SENS:ADJ:NCAN:AVER:COUN", avg),                   \* vsa.py:131
      Cmd("INIT:IMM", 0),                                    \* vsa.py:132
      Cmd("FETC:CC1:ISRC:FRAM:SUMM:EVM:ALL:AVERage?", 0),    \* vsa.py:133
      Cmd("CONF:NR5G:MEAS ACLR", 0),                         \* vsa.py:136
      Cmd("SENS:POW:NCOR ON", 0),                            \* vsa.py:137
      Cmd("INIT:IMM", 0),                                    \* vsa.py:138
      Cmd(AcpQuery, 0),                                      \* vsa.py:139
      Cmd("CONF:NR5G:MEAS EVM", 0),                          \* vsa.py:144
      Cmd("SENS:ADJ:NCAN:AVER:STAT OFF", 0)>>                \* vsa.py:145

\* The position of the ACP query in a command list.
AcpIndex(cmds) == CHOOSE n \in 1..Len(cmds) : cmds[n].text = AcpQuery

\* What one command does to the settings of the analyzer.  Triggers, fetches and
\* the automatic adjustments leave the modelled settings alone.
Apply(st, c) ==
    CASE c.text = ":SENS:FREQ:CENT" -> [st EXCEPT !.cent = c.arg]
      [] c.text = ":DISP:WIND:TRAC:Y:SCAL:RLEV:OFFS" -> [st EXCEPT !.rlev_offs = c.arg]
      [] c.text = "CONF:NR5G:MEAS ACLR" -> [st EXCEPT !.meas = "ACLR"]
      [] c.text = "CONF:NR5G:MEAS EVM" -> [st EXCEPT !.meas = "EVM"]
      [] c.text = "SENS:ADJ:NCAN:AVER:STAT ON" -> [st EXCEPT !.ncan = TRUE]
      [] c.text = "SENS:ADJ:NCAN:AVER:STAT OFF" -> [st EXCEPT !.ncan = FALSE]
      [] c.text = "SENS:ADJ:NCAN:AVER:COUN" -> [st EXCEPT !.ncan_count = c.arg]
      [] c.text = "SENS:POW:NCOR ON" -> [st EXCEPT !.ncor = TRUE]
      [] OTHER -> st

\* The settings after the first n commands of cmds.
RECURSIVE RunCommands(_, _, _)
RunCommands(st, cmds, n) ==
    IF n = 0 THEN st ELSE Apply(RunCommands(st, cmds, n - 1), cmds[n])
\* The measurement left active by each of the first n commands of cmds.
CommandLog(st, cmds, n) == [k \in 1..n |-> RunCommands(st, cmds, k).meas]

\* The body of a measurement whose every command went through: the commands up
\* to the ACP query, the unprotected parse of its answer, and if that did not
\* raise the rest of the commands and the return value.
Measure(cmds, call, ret, rec) ==
    LET err == AclrParseError(call.resp.aclr)
        n == IF err = "none" THEN Len(cmds) ELSE AcpIndex(cmds)
    IN  /\ vcall' = call
        /\ ventry' = vsa_state
        /\ vsa_state' = RunCommands(vsa_state, cmds, n)
        /\ vlog' = CommandLog(vsa_state, cmds, n)
        /\ vret' = IF err = "none" THEN ret ELSE [NoRet EXCEPT !.status = err]
        /\ vrecord' = IF err = "none" THEN rec ELSE NoRecord
        /\ vpc' = IF err = "none" THEN "ready" ELSE "raised"
        /\ vcalls' = vcalls + 1
        /\ UNCHANGED vconstructed

\* A measurement whose k-th command fails in the transport: the except clause
\* (vsa.py:111-113, vsa.py:149-151) logs and re-raises.
TransportFails(cmds, call, k) ==
    /\ vcall' = [call EXCEPT !.fail = k]
    /\ ventry' = vsa_state
    /\ vsa_state' = RunCommands(vsa_state, cmds, k - 1)
    /\ vlog' = CommandLog(vsa_state, cmds, k - 1)
    /\ vret' = [NoRet EXCEPT !.status = "TransportError"]
    /\ vrecord' = NoRecord
    /\ vpc' = "raised"
    /\ vcalls' = vcalls + 1
    /\ UNCHANGED vconstructed

\* vsa.py:96-110: the values measure_evm returns (the elapsed times are left out).
MeasureEvmReturn(pw, ev, ac) ==
    [status |-> "returned",
     vsa_power |-> QueryFloat(pw),
     evm |-> QueryFloat(ev),
     chan_pow |-> ParseAclr(ac).chan_pow,
     adj_chan_lower |-> ParseAclr(ac).adj_chan_lower,
     adj_chan_upper |-> ParseAclr(ac).adj_chan_upper]
\* vsa.py:133-148: the values measure_K575_evm returns.
MeasureK575Return(ev, ac) ==
    [status |-> "returned",
     vsa_power |-> Absent,
     evm |-> QueryFloat(ev),
     chan_pow |-> ParseAclr(ac).chan_pow,
     adj_chan_lower |-> ParseAclr(ac).adj_chan_lower,
     adj_chan_upper |-> ParseAclr(ac).adj_chan_upper]

\* A VSA object whose constructor returned.
InitVSA ==
    /\ vpc = "ready"
    /\ vsa_state \in ConstructedStates
    /\ ventry = vsa_state
    /\ vcall = NoCall
    /\ vlog = <<>>
    /\ vret = NoRet
    /\ vrecord = NoRecord
    /\ vcalls = 0
    /\ vconstructed = vsa_state
    /\ ServoIdleSweep
    /\ SweepIdle

\* vsa.py:76-110
MeasureEvm ==
    /\ vpc = "ready"
    /\ vcalls < MaxCalls
    /\ \E f \in FreqStrChoices, off \in VsaOffsetChoices,
          pw \in Texts, ev \in Texts, ac \in AclrLists :
          Measure(MeasureEvmCommands(f, off),
                  [name |-> "measure_evm", freq_str |-> f, vsa_offset |-> off,
                   avg |-> 0, fail |-> 0,
                   resp |-> [pow |-> pw, evm |-> ev, aclr |-> ac]],
                  MeasureEvmReturn(pw, ev, ac),
                  StandardResult(MeasureEvmReturn(pw, ev, ac)))
    /\ UNCHANGED <<sweepVars, servoVars>>

\* vsa.py:76-113 with a command that fails.
MeasureEvmTransportFails ==
    /\ vpc = "ready"
    /\ vcalls < MaxCalls
    /\ \E f \in FreqStrChoices, off \in VsaOffsetChoices :
          \E k \in 1..Len(MeasureEvmCommands(f, off)) :
              TransportFails(MeasureEvmCommands(f, off),
                             [NoCall EXCEPT !.name = "measure_evm", !.freq_str = f,
                                            !.vsa_offset = off], k)
    /\ UNCHANGED <<sweepVars, servoVars>>

\* vsa.py:115-148.  The body never reads freq_str and vsa_offset (vsa.py:118-129
\* is a string literal), so the call carries the averaging count only.
MeasureK575Evm ==
    /\ vpc = "ready"
    /\ vcalls < MaxCalls
    /\ \E avg \in AvgChoices, ev \in Texts, ac \in AclrLists :
          Measure(MeasureK575Commands(avg),
                  [name |-> "measure_K575_evm", freq_str |-> 0,
                   vsa_offset |-> 0, avg |-> avg, fail |-> 0,
                   resp |-> [pow |-> NoResp.pow, evm |-> ev, aclr |-> ac]],
                  MeasureK575Return(ev, ac),
                  K575Result(avg, MeasureK575Return(ev, ac)))
    /\ UNCHANGED <<sweepVars, servoVars>>

\* vsa.py:115-151 with a command that fails.
MeasureK575EvmTransportFails ==
    /\ vpc = "ready"
    /\ vcalls < MaxCalls
    /\ \E avg \in AvgChoices :
          \E k \in 1..Len(MeasureK575Commands(avg)) :
              TransportFails(MeasureK575Commands(avg),
                             [NoCall EXCEPT !.name = "measure_K575_evm",
                                            !.avg = avg], k)
    /\ UNCHANGED <<sweepVars, servoVars>>

NextVSA ==
    \/ MeasureEvm
    \/ MeasureEvmTransportFails
    \/ MeasureK575Evm
    \/ MeasureK575EvmTransportFails

SpecVSA == InitVSA /\ [][NextVSA]_vars

----------------------------------------------------------------------------
(* Vocabulary of the claims about run_sweep. *)

\* The table holds a row whose frequency rounds to key k.
HasRow(k) == \E n \in 1..Len(cal_df) : RoundKey(cal_df[n].freq) = k
\* The records written to the workbook that carry key k.
RecordsFor(k) == {n \in 1..Len(sink.records) : sink.records[n].freq_ghz = k}
\* The instrument calls made after the constructors.
SweepOps == SelectSeq(ops, LAMBDA o : o.op # "init")
GridBuilt == pc # "grid"

\* C1: with start 3.5 GHz, stop 3.502 GHz, step 1 MHz, rows for 3.500, 3.501 and
\* 3.502 GHz and instruments that never fail, run_sweep hands exactly three
\* records to the workbook, for 3.5, 3.501 and 3.502 GHz in this order, each
\* with 1 <= Servo Iterations <= max_iterations.  (Target power, tolerance and
\* expected gain reach only servo_power and the level passed at main.py:105.)
C1_Scenario ==
    /\ sweep_params = [start |-> 3500 * SubPerMHz, stop |-> 3502 * SubPerMHz,
                       step |-> SubPerMHz]
    /\ \A k \in 3500..3502 : \E n \in 1..Len(cal_df) : cal_df[n].freq = k * SubPerMHz
C1_EndToEnd ==
    (Terminated /\ C1_Scenario /\ ~faulted) =>
        /\ sink.written
        /\ Len(sink.records) = 3
        /\ \A n \in 1..3 :
              /\ sink.records[n].freq_ghz = 3499 + n
              /\ sink.records[n].servo_iterations \in 1..SweepMaxIterations

\* C2: for start <= stop and step > 0 the grid has floor((stop - start) / step) + 1
\* points, is strictly ascending, and holds stop exactly when stop is a whole
\* number of steps above start.
C2_GridShape ==
    GridBuilt =>
        LET start == sweep_params.start
            stop == sweep_params.stop
            step == sweep_params.step
        IN  /\ Len(freqs) = ((stop - start) \div step) + 1
            /\ \A n \in 1..(Len(freqs) - 1) : freqs[n] < freqs[n + 1]
            /\ (\E n \in 1..Len(freqs) : freqs[n] = stop) <=> ((stop - start) % step = 0)

\* C6: on a run without instrument failure whose first grid point is calibrated,
\* a calibrated key that occurs more than once in the grid is measured at its
\* first occurrence only: the records hold it exactly once.
DuplicatedKeys ==
    {Key(freqs[a]) : a \in {x \in 1..Len(freqs) :
                               \E y \in 1..Len(freqs) : y # x /\ Key(freqs[y]) = Key(freqs[x])}}
C6_DedupFirstOnly ==
    (Terminated /\ ~faulted /\ Len(freqs) > 0 /\ HasRow(Key(freqs[1]))) =>
        \A k \in DuplicatedKeys : HasRow(k) => Cardinality(RecordsFor(k)) = 1

\* C7: on a run without instrument failure whose first grid point is calibrated,
\* a later grid point without a calibration row is absent from the records and
\* every calibrated point after it is still measured.
C7_SkipUncalibrated ==
    (Terminated /\ ~faulted /\ Len(freqs) > 0 /\ HasRow(Key(freqs[1]))) =>
        \A a \in 2..Len(freqs) :
            ~HasRow(Key(freqs[a])) =>
                /\ RecordsFor(Key(freqs[a])) = {}
                /\ \A b \in (a + 1)..Len(freqs) :
                      HasRow(Key(freqs[b])) => RecordsFor(Key(freqs[b])) # {}

\* C8: when the first grid frequency has no calibration row, no instrument call
\* is made after the constructors, no key is marked processed and no record is
\* produced or written, whatever rows the later grid points have.
C8_FirstUncalibratedAborts ==
    (GridBuilt /\ Len(freqs) > 0 /\ ~HasRow(Key(freqs[1]))) =>
        /\ SweepOps = <<>>
        /\ results = <<>>
        /\ matched_frequencies = {}
        /\ sink.records = <<>>
        /\ pc \notin {"cold_pm", "cold_vsg", "cold_vsa"}
C8_Witness ==
    /\ pc = "returned"
    /\ handles = Devices
    /\ Len(freqs) > 1
    /\ ~HasRow(Key(freqs[1]))
    /\ \E a \in 2..Len(freqs) : HasRow(Key(freqs[a]))
    /\ sink = [written |-> TRUE, records |-> <<>>]

\* C9: once the three handles exist, a run ends with a release attempted on the
\* signal source, the analyzer and the power meter; stated of the runs in which
\* no release raised.
C9_AllReleased ==
    (Terminated /\ handles = Devices /\ \A d \in Devices : closed[d] # "raised") =>
        \A d \in Devices : closed[d] # "no"

\* C10: a release that raises does not keep the next release from being
\* attempted; stated of the two handles run_sweep releases: when closing the
\* signal source has raised, closing the power meter has still been attempted.
C10_ReleaseIndependent ==
    (Terminated /\ closed["vsg"] = "raised") => closed["pm"] # "no"

\* main.py:103 raised: the three handles exist, the first grid point has its
\* row, and the run is past the cold configure without any call after the
\* constructors.
ColdPMFailed ==
    /\ handles = Devices
    /\ HasRow(Key(InitialFreq))
    /\ pc \notin {"cold_match", "cold_pm"}
    /\ SweepOps = <<>>
\* The finally block (main.py:176) was entered: its first statement was tried.
FinalizeReached == closed["vsg"] # "no"

\* C11: when an instrument call of a grid point fails in the transport (here the
\* configure of the power meter for the first grid point, main.py:103), no
\* instrument call follows it, the finally block runs, and the records collected
\* so far are written to the workbook.
C11_FailureStopsAndFlushes ==
    (Terminated /\ ColdPMFailed) =>
        /\ SweepOps = <<>>
        /\ FinalizeReached
        /\ sink.written
        /\ sink.records = results

\* C12: every run that enters the finally block hands the collected records to
\* the workbook, also when a release raises.
C12_AlwaysFlushes ==
    (Terminated /\ FinalizeReached) => (sink.written /\ sink.records = results)

\* A run without transport failure whose first grid point is calibrated.
CleanCalibratedRun ==
    Terminated /\ ~faulted /\ Len(freqs) > 0 /\ HasRow(Key(freqs[1]))
\* main.py:111-120: the grid points the loop measures, the first occurrence of
\* each calibrated key.
ProcessedIndexes ==
    {a \in 1..Len(freqs) :
        /\ HasRow(Key(freqs[a]))
        /\ \A b \in 1..(a - 1) : Key(freqs[b]) # Key(freqs[a])}
\* The instrument calls after the cold configure (main.py:103-106), which are
\* the calls of the loop; each carries its frequency as first argument.
LoopOps == SubSeq(SweepOps, 4, Len(SweepOps))
LoopOpsOf(k, name) ==
    SelectSeq(LoopOps, LAMBDA o : o.op = name /\ Key(o.args[1]) = k)
\* main.py:128, 134, 140, 163: the place of a call within its point.
StepRank(name) ==
    CASE name = "configure" -> 1
      [] name = "servo_power" -> 2
      [] name = "measure_evm" -> 3
      [] name = "measure_K575_evm" -> 4
      [] OTHER -> 0

C15_OneRecordPerCalibratedKey ==
    CleanCalibratedRun =>
        /\ \A a \in 1..Len(freqs) :
              HasRow(Key(freqs[a])) => Cardinality(RecordsFor(Key(freqs[a]))) = 1
        /\ Len(sink.records)
              = Cardinality({Key(freqs[a]) : a \in {b \in 1..Len(freqs) : HasRow(Key(freqs[b]))}})

LookupDone == handles = Devices /\ pc # "cold_match"
\* The rows of the table whose frequency rounds to key k, by position.
RowsOfKey(k) == {n \in 1..Len(cal_df) : RoundKey(cal_df[n].freq) = k}

\* C22: the lookup for a key gives the four offsets of the first row of the
\* table whose rounded frequency equals the key, and NotFound when there is no
\* such row: never the offsets of a row with another key, never those of a later
\* row of the same key.
C22_ExactFirstMatch ==
    LookupDone =>
        LET rows == RowsOfKey(Key(InitialFreq)) IN
        IF rows = {}
        THEN offsets = NotFound /\ SweepOps = <<>>
        ELSE LET first == CHOOSE n \in rows : \A m \in rows : n <= m IN
             /\ offsets.found
             /\ offsets.vsg_offset = cal_df[first].vsg_offset
             /\ offsets.vsa_offset = cal_df[first].vsa_offset
             /\ offsets.input_offset = cal_df[first].input_offset
             /\ offsets.output_offset = cal_df[first].output_offset
\* The table holds two rows of the looked-up key with different offsets and a
\* row of a neighbouring key ahead of them; the lookup gave the first of the two.
C22_Witness ==
    /\ LookupDone
    /\ Len(cal_df) = 3
    /\ RowsOfKey(Key(InitialFreq)) = {2, 3}
    /\ cal_df[2].vsg_offset # cal_df[3].vsg_offset
    /\ Abs(RoundKey(cal_df[1].freq) - Key(InitialFreq)) = 1
    /\ offsets.found
    /\ offsets.vsg_offset = cal_df[2].vsg_offset
    /\ offsets.output_offset = cal_df[2].output_offset

\* C23: when the calibration table lacks the frequency column or holds a
\* non-numeric value in it, run_sweep ends at the load of the table: no handle
\* is ever constructed, no instrument call is made, no record is produced and
\* nothing is written.
C23_BadTableAbortsEarly ==
    cal_schema # "ok" =>
        /\ handles = {}
        /\ ops = <<>>
        /\ results = <<>>
        /\ sink = [written |-> FALSE, records |-> <<>>]
        /\ \A d \in Devices : closed[d] = "no"
        /\ pc \in {"grid", "load_cal", "returned"}
C23_Witness ==
    /\ cal_schema = "nonnumeric"
    /\ pc = "returned"
    /\ Len(freqs) > 1
    /\ handles = {}
    /\ ops = <<>>

C26_ColdConfigureCompletes ==
    CleanCalibratedRun =>
        /\ exc = "none"
        /\ Len(SweepOps) >= 3
        /\ SweepOps[1] = Op("pm", "configure",
                            <<InitialFreq, offsets.input_offset, offsets.output_offset>>)
        /\ SweepOps[2].dev = "vsg" /\ SweepOps[2].op = "configure"
        /\ SweepOps[2].args[1] = InitialFreq
        /\ SweepOps[3].dev = "vsa" /\ SweepOps[3].op = "configure"
        /\ SweepOps[3].args[1] = InitialFreq

----------------------------------------------------------------------------
(* The claims about servo_power. *)

\* C3: when the first reading equals the target and the tolerance is positive,
\* servo_power returns iteration count 1 and has pushed no level to the source.
C3_OnTargetAtOnce ==
    (Len(readings) >= 1 /\ readings[1] = target_output /\ tolerance > 0) =>
        /\ spc = "returned"
        /\ servo_iterations = 1
        /\ Len(readings) = 1
        /\ pushes = <<>>
C3_Witness ==
    /\ spc = "returned"
    /\ tolerance > 0
    /\ readings = <<target_output>>
    /\ servo_iterations = 1

\* C4: when servo_power has ended, no instrument call failed and no reading was
\* within tolerance of the target, it has returned (not raised) after exactly
\* max_iterations readings, with iteration count max_iterations and without
\* having converged.
C4_ExhaustsWithoutConvergence ==
    (/\ ServoEnded
     /\ ~sfault
     /\ \A k \in 1..Len(readings) : Abs(readings[k] - target_output) >= tolerance) =>
        /\ spc = "returned"
        /\ servo_iterations = max_iterations
        /\ Len(readings) = max_iterations
        /\ ~converged
C4_Witness ==
    /\ spc = "returned"
    /\ ~sfault
    /\ max_iterations >= 2
    /\ Len(readings) = max_iterations
    /\ \A k \in 1..Len(readings) : Abs(readings[k] - target_output) >= tolerance
    /\ servo_iterations = max_iterations

\* C5: the convergence test is strict.  A reading whose distance from the target
\* is below the tolerance is the last one: servo_power has returned converged
\* with that reading's number as iteration count.  A reading whose distance
\* equals the tolerance never ends the loop as converged: the adjusted level is
\* pushed to the source (or that push raised) and the loop goes on.
C5_StrictTolerance ==
    \A k \in 1..Len(readings) :
        LET dist == Abs(readings[k] - target_output) IN
        /\ dist < tolerance =>
              /\ k = Len(readings)
              /\ spc = "returned"
              /\ converged
              /\ servo_iterations = k
              /\ Len(pushes) = k - 1
        /\ dist = tolerance =>
              /\ ~(converged /\ k = Len(readings))
              /\ \/ Len(pushes) >= k /\ i >= k
                 \/ spc = "raised" /\ sfault /\ k = Len(readings)
C5_Witness ==
    /\ tolerance > 0
    /\ Len(readings) = 2
    /\ Abs(readings[1] - target_output) = tolerance
    /\ Abs(readings[2] - target_output) < tolerance
    /\ Len(pushes) = 1
    /\ converged
    /\ servo_iterations = 2

\* The setpoint servo_power starts from (power_servo.py:35).
StartPower == target_output - expected_gain
WithinTolerance(k) == Abs(readings[k] - target_output) < tolerance
\* pm.measure() has raised: a failure with every reading so far adjusted and
\* pushed.  (A failed set_power leaves one reading without its push.)
PMFailed == sfault /\ Len(readings) = Len(pushes)

\* C24: once pm.measure() has raised in a servo iteration, servo_power is left
\* by that exception at once: it takes no further reading and pushes no further
\* level to the source.
C24_NoRetry ==
    /\ [](PMFailed => spc = "raised")
    /\ [][PMFailed => (readings' = readings /\ pushes' = pushes /\ spc' = spc)]_vars
C24_Witness ==
    /\ PMFailed
    /\ spc = "raised"
    /\ Len(readings) = 2
    /\ max_iterations > 2

\* C28: when servo_power begins its loop the source is set to target_output -
\* expected_gain, and at every reading the running setpoint equals the level the
\* source is set to.
C28_SetpointIsSourceLevel ==
    spc = "loop" =>
        /\ i = 0 => vsg_level = StartPower
        /\ initial_pwr = vsg_level

\* C29: every reading outside the tolerance adds exactly target_output minus
\* that reading to the setpoint and the new setpoint is pushed to the source
\* once, before the next reading; a reading within the tolerance pushes nothing
\* and leaves the setpoint as it was.
C29_AdjustAndPush ==
    spc # "call" =>
        /\ Len(pushes) <= Len(readings)
        /\ Len(readings) <= Len(pushes) + 1
        /\ \A k \in 1..Len(pushes) :
              /\ ~WithinTolerance(k)
              /\ pushes[k] = (IF k = 1 THEN StartPower ELSE pushes[k - 1])
                                + (target_output - readings[k])
        /\ \A k \in 1..Len(readings) :
              WithinTolerance(k) =>
                  /\ Len(pushes) = k - 1
                  /\ initial_pwr = IF k = 1 THEN StartPower ELSE pushes[k - 1]
        /\ spc = "loop" =>
              /\ Len(pushes) = Len(readings)
              /\ initial_pwr = IF pushes = <<>> THEN StartPower ELSE pushes[Len(pushes)]
C29_Witness ==
    /\ spc = "returned"
    /\ converged
    /\ Len(readings) = 3
    /\ Len(pushes) = 2
    /\ readings[1] # readings[2]
    /\ pushes[2] = StartPower + (target_output - readings[1]) + (target_output - readings[2])
    /\ initial_pwr = pushes[2]

\* C30: servo_power returns an iteration count k with 1 <= k <= max_iterations
\* after exactly k readings, and k = max_iterations exactly when none of the
\* first max_iterations - 1 readings was within the tolerance; the last reading
\* may or may not have been.
C30_CountAndReads ==
    spc = "returned" =>
        /\ servo_iterations \in 1..max_iterations
        /\ Len(readings) = servo_iterations
        /\ servo_iterations = max_iterations <=>
              \A k \in 1..(max_iterations - 1) : k <= Len(readings) /\ ~WithinTolerance(k)
\* The count is max_iterations and the final reading converged.
C30_Witness ==
    /\ spc = "returned"
    /\ max_iterations >= 2
    /\ servo_iterations = max_iterations
    /\ Len(readings) = max_iterations
    /\ converged
    /\ WithinTolerance(max_iterations)

----------------------------------------------------------------------------
(* Claims about the analyzer measurements, on SpecVSA. *)

\* The last call went through the transport without a failure.
CallWentThrough == vcall.name # "none" /\ vcall.fail = 0
\* The commands of the last call.
LastCommands ==
    IF vcall.name = "measure_evm"
    THEN MeasureEvmCommands(vcall.freq_str, vcall.vsa_offset)
    ELSE MeasureK575Commands(vcall.avg)
AclrAnswerNumeric ==
    /\ Len(vcall.resp.aclr) = 3
    /\ \A k \in 1..3 : IsNumeric(vcall.resp.aclr[k])

\* C17: after measure_K575_evm(N) returns normally the analyzer has the
\* settings it had on entry: the active measurement is EVM, noise-cancel
\* averaging is off, and every setting the call wrote, the noise-correction
\* flag among them, is back at its entry value.
C17_BaselineRestored ==
    (vcall.name = "measure_K575_evm" /\ vret.status = "returned") =>
        /\ vsa_state.meas = "EVM"
        /\ vsa_state.ncan = FALSE
        /\ vsa_state = ventry

C19_NonNumericYieldsNaN ==
    (CallWentThrough /\ Len(vcall.resp.aclr) = 3) =>
        /\ vret.status = "returned"
        /\ vret.evm = QueryFloat(vcall.resp.evm)
        /\ vcall.name = "measure_evm" => vret.vsa_power = QueryFloat(vcall.resp.pow)
        /\ vret.chan_pow = QueryFloat(vcall.resp.aclr[1])
        /\ vret.adj_chan_lower = QueryFloat(vcall.resp.aclr[2])
        /\ vret.adj_chan_upper = QueryFloat(vcall.resp.aclr[3])

\* C20: when measure_evm gets "ERR" for the EVM fetch and numeric texts for the
\* power fetch and the three leakage elements, it returns, its EVM is NaN and
\* every other measured field is the number parsed from its own answer.
C20_ErrEvmOnly ==
    /\ vcall.name = "measure_evm"
    /\ vcall.fail = 0
    /\ vcall.resp.evm = "ERR"
    /\ IsNumeric(vcall.resp.pow)
    /\ AclrAnswerNumeric
C20_ErrEvmGivesNaN ==
    C20_ErrEvmOnly =>
        /\ vret.status = "returned"
        /\ vpc = "ready"
        /\ vret.evm = NaN
        /\ vret.vsa_power = Num(FloatOf[vcall.resp.pow])
        /\ vret.chan_pow = Num(FloatOf[vcall.resp.aclr[1]])
        /\ vret.adj_chan_lower = Num(FloatOf[vcall.resp.aclr[2]])
        /\ vret.adj_chan_upper = Num(FloatOf[vcall.resp.aclr[3]])
C20_Witness ==
    /\ C20_ErrEvmOnly
    /\ vret.evm = NaN
    /\ vret.chan_pow = Num(-100)
    /\ vret.adj_chan_lower = Num(-452)
    /\ vret.adj_chan_upper = Num(-448)

\* C21: the leakage answer is parsed by position.  When measure_evm or
\* measure_K575_evm has returned on the answer "a,b,c", it reports channel power
\* a, lower adjacent leakage b and upper adjacent leakage c, and the result dict
\* made of the return value holds them under the entries of these names.
C21_PositionalLeakage ==
    vret.status = "returned" =>
        LET a == Num(FloatOf[vcall.resp.aclr[1]])
            b == Num(FloatOf[vcall.resp.aclr[2]])
            c == Num(FloatOf[vcall.resp.aclr[3]])
            n == ToString(vcall.avg)
        IN  /\ vret.chan_pow = a
            /\ vret.adj_chan_lower = b
            /\ vret.adj_chan_upper = c
            /\ vcall.name = "measure_evm" =>
                  /\ vrecord["Channel Power (dBm)"] = a
                  /\ vrecord["Lower Adjacent ACLR (dB)"] = b
                  /\ vrecord["Upper Adjacent ACLR (dB)"] = c
            /\ vcall.name = "measure_K575_evm" =>
                  /\ vrecord["K575 Channel Power " \o n \o " avg (dBm)"] = a
                  /\ vrecord["K575 Lower Adjacent ACLR " \o n \o " avg (dB)"] = b
                  /\ vrecord["K575 Upper Adjacent ACLR " \o n \o " avg (dB)"] = c
\* Both methods have returned on "-10.0,-45.2,-44.8".
C21_Witness ==
    /\ vcalls = 2
    /\ vret.status = "returned"
    /\ vcall.name = "measure_K575_evm"
    /\ ventry.cent = 3501
    /\ vcall.resp.aclr = <<"-10.0", "-45.2", "-44.8">>
    /\ vret.chan_pow = Num(-100)
    /\ vret.adj_chan_lower = Num(-452)
    /\ vret.adj_chan_upper = Num(-448)
    /\ vrecord["K575 Lower Adjacent ACLR 5 avg (dB)"] = Num(-452)

\* The commands the last call sent.
SentCommands == SubSeq(LastCommands, 1, Len(vlog))
\* What a command is in the measurement protocol.
StepOf(text) ==
    CASE text = ":SENS:FREQ:CENT" -> "center_frequency"
      [] text = ":DISP:WIND:TRAC:Y:SCAL:RLEV:OFFS" -> "reference_level_offset"
      [] text = "CONF:SETT:NR5G" -> "signal_format"
      [] text = ":SENS:ADJ:LEV" -> "auto_level"
      [] text = ":SENS:ADJ:EVM" -> "auto_evm"
      [] text = "INIT:IMM" -> "trigger"
      [] text = "FETC:CC1:ISRC:FRAM:SUMM:POW:AVERage?" -> "fetch_power"
      [] text = "FETC:CC1:ISRC:FRAM:SUMM:EVM:ALL:AVERage?" -> "fetch_evm"
      [] text = "CONF:NR5G:MEAS ACLR" -> "to_aclr"
      [] text = AcpQuery -> "fetch_aclr"
      [] text = "CONF:NR5G:MEAS EVM" -> "to_evm"
      [] text = "SENS:ADJ:NCAN:AVER:STAT ON" -> "ncan_on"
      [] text = "SENS:ADJ:NCAN:AVER:COUN" -> "ncan_count"
      [] text = "SENS:ADJ:NCAN:AVER:STAT OFF" -> "ncan_off"
      [] text = "SENS:POW:NCOR ON" -> "ncor_on"
      [] OTHER -> "display"
\* The protocol steps of the last call, display commands left out.
SentSteps ==
    SelectSeq([k \in 1..Len(SentCommands) |-> StepOf(SentCommands[k].text)],
              LAMBDA step : step # "display")
IsPrefix(p, q) == Len(p) <= Len(q) /\ SubSeq(q, 1, Len(p)) = p
\* Every fetch among the steps has a trigger ahead of it with no other trigger
\* or change of measurement in between.
FetchesFollowTriggers(steps) ==
    \A k \in 1..Len(steps) :
        steps[k] \in {"fetch_power", "fetch_evm", "fetch_aclr"} =>
            \E m \in 1..(k - 1) :
                /\ steps[m] = "trigger"
                /\ \A j \in (m + 1)..(k - 1) :
                      steps[j] \in {"fetch_power", "fetch_evm", "fetch_aclr"}

K575Steps ==
    <<"ncan_on", "ncan_count", "trigger", "fetch_evm", "to_aclr", "ncor_on",
      "trigger", "fetch_aclr", "to_evm", "ncan_off">>
\* C31: measure_K575_evm(N) sends: noise-cancel averaging on, averaging count N,
\* trigger, fetch EVM, switch to ACLR, noise correction on, trigger, fetch the
\* leakage result, switch to EVM, noise-cancel averaging off, in this order (a
\* call that raises has sent a prefix of it); the count N and the averaging are
\* in effect when the first trigger is sent and every fetch follows a trigger
\* of its own.
C31_ExtendedOrder ==
    vcall.name = "measure_K575_evm" =>
        /\ IsPrefix(SentSteps, K575Steps)
        /\ vret.status = "returned" => SentSteps = K575Steps
        /\ FetchesFollowTriggers(SentSteps)
        /\ \A k \in 1..Len(SentCommands) :
              (SentCommands[k].text = "INIT:IMM" /\ \A m \in 1..(k - 1) : SentCommands[m].text # "INIT:IMM") =>
                  /\ RunCommands(ventry, SentCommands, k - 1).ncan
                  /\ RunCommands(ventry, SentCommands, k - 1).ncan_count = vcall.avg
C31_Witness ==
    /\ vcall.name = "measure_K575_evm"
    /\ vret.status = "returned"
    /\ vcall.avg = 10
    /\ ventry.ncan_count = 5
    /\ Len(SentSteps) = 10
    /\ vsa_state.ncan_count = 10

EvmSteps ==
    <<"center_frequency", "reference_level_offset", "signal_format", "auto_level",
      "auto_evm", "trigger", "fetch_power", "fetch_evm", "to_aclr", "trigger",
      "fetch_aclr", "to_evm">>
\* C32: measure_evm sends: centre frequency, reference-level offset, signal
\* format, auto level, auto EVM, trigger, fetch power, fetch EVM, switch to
\* ACLR, trigger, fetch the leakage result, switch to EVM, in this order (a call
\* that raises has sent a prefix of it), and every fetch follows a trigger of
\* its own.
C32_StandardOrder ==
    vcall.name = "measure_evm" =>
        /\ IsPrefix(SentSteps, EvmSteps)
        /\ vret.status = "returned" => SentSteps = EvmSteps
        /\ FetchesFollowTriggers(SentSteps)
        /\ \A k \in 1..Len(SentCommands) :
              SentCommands[k].text = ":SENS:ADJ:LEV" =>
                  /\ RunCommands(ventry, SentCommands, k - 1).cent = vcall.freq_str
                  /\ RunCommands(ventry, SentCommands, k - 1).rlev_offs = vcall.vsa_offset
C32_Witness ==
    /\ vcall.name = "measure_evm"
    /\ vret.status = "returned"
    /\ vcall.freq_str = 3501
    /\ ventry.cent = 3500
    /\ Len(SentSteps) = 12
    /\ Len(SentCommands) = 13

\* The analyzer's settings after the k-th command of the last call.
SettingsAfter(k) == RunCommands(ventry, LastCommands, k)
\* The positions of the triggers the last call sent while ACLR was active.
AclrTriggers ==
    {k \in 1..Len(vlog) : LastCommands[k].text = "INIT:IMM" /\ vlog[k] = "ACLR"}

\* C33: on an analyzer whose constructor left noise-cancel averaging and the
\* noise-correction flag off, every ACLR acquisition of measure_evm is
\* triggered with noise-cancel averaging off and the noise-correction flag
\* off, whatever calls were made before it: nothing an earlier
\* measure_K575_evm enabled carries over.
C33_NoCarryOver ==
    (vcall.name = "measure_evm" /\ ~vconstructed.ncan /\ ~vconstructed.ncor) =>
        \A k \in AclrTriggers :
            ~SettingsAfter(k).ncan /\ ~SettingsAfter(k).ncor

----------------------------------------------------------------------------
(* Claims about the offsets and the bookkeeping of run_sweep, on Spec. *)

\* The source-power offset of the calibration record of key k (main.py:121).
OwnSourceOffset(k) == Lookup(cal_df, k).vsg_offset
\* vsg.py:34 is the only statement that sends a power offset to the source: the
\* configure calls of the source that carry frequency f and offset off.
SourceOffsetSent(f, off) ==
    {n \in 1..Len(SweepOps) :
        /\ SweepOps[n].dev = "vsg" /\ SweepOps[n].op = "configure"
        /\ Len(SweepOps[n].args) = Len(VSGConfigureParams)
        /\ SweepOps[n].args[1] = f
        /\ SweepOps[n].args[3] = off}

RecordedKeys == {sink.records[n].freq_ghz : n \in 1..Len(sink.records)}

----------------------------------------------------------------------------
(* The claim about servo_power on a device of constant gain, on SpecServo. *)

\* The gains a device may have: the expected gain or up to MaxDev off it.
DeviceGains == {expected_gain + d : d \in (-MaxDev)..MaxDev}
\* The level the source is set to when the k-th reading is taken: the level at
\* the call for the first, the level pushed last for the others.
LevelAt(k) == IF k = 1 THEN entry_level ELSE pushes[k - 1]
\* Every reading taken so far is the source level plus the gain G.
LinearDevice(G) == \A k \in 1..Len(readings) : readings[k] = LevelAt(k) + G

\* C36: when the source is at target_output - expected_gain at the call, the
\* tolerance is positive, max_iterations is at least 2 and every reading is the
\* source level plus one constant gain G, servo_power takes at most two
\* readings, a call that returns has converged with an iteration count of at
\* most 2, and if it pushed a level the source is left at target_output - G.
C36_LinearConvergesInTwo ==
    \A G \in DeviceGains :
        (/\ entry_level = StartPower
         /\ tolerance > 0
         /\ max_iterations >= 2
         /\ LinearDevice(G)) =>
            /\ Len(readings) <= 2
            /\ spc = "returned" =>
                  /\ converged
                  /\ servo_iterations <= 2
                  /\ pushes # <<>> => vsg_level = target_output - G
C36_Witness ==
    /\ spc = "returned"
    /\ entry_level = StartPower
    /\ tolerance > 0
    /\ max_iterations > 2
    /\ converged
    /\ servo_iterations = 2
    /\ Len(pushes) = 1
    /\ \E G \in DeviceGains :
          /\ G # expected_gain
          /\ LinearDevice(G)
          /\ vsg_level = target_output - G
====
